---- MODULE Spec2Model ----
\* Consumer / MultiConsumer pipeline of logpipe (src/src/logpipe/consumer.py):
\* fetch, throttle, decode, dispatch, apply inside transaction.atomic(), commit,
\* and the error classifier consumer_error_handler; and Producer.send
\* (src/src/logpipe/producer.py).
EXTENDS Integers, Sequences, FiniteSets, TLC

\* ------------------------------------------------------------------ bounds
MaxMessages == 2       \* messages present in one topic
MaxKills == 1          \* process kills followed by a restart
MaxRegs == 2           \* register calls made on one consumer
MaxSends == 2          \* records one Producer hands to the transport
MaxTime == 6           \* last instant of the clock, in milliseconds

Consumers == {1, 2}    \* the consumers handed to MultiConsumer

\* ------------------------------------------------------- values and inputs
None == "None"                 \* Python's None
Empty == <<>>                  \* the empty dict / an unset local
ErrorTopics == {None, "errors"}
FORMAT_JSON == "json"
Types == {"T1", "T2"}
IgnorableTypes == {"T1"}
IterLimits == {0, 1}

\* dict helpers
Has(d, k) == k \in DOMAIN d
Put(d, k, v) == [y \in DOMAIN d \cup {k} |-> IF y = k THEN v ELSE d[y]]

\* Handler classes that can be registered.  HA is a rest_framework Serializer
\* with lookup_instance and no delete() of its own; HB is a custom class with
\* its own delete(); HC is a Serializer for another version of the type.
\* Only HA declares a KEY_FIELD.
Handlers == {"HA", "HB", "HC"}
Class(h) ==
    CASE h = "HA" -> [MESSAGE_TYPE |-> "T1", VERSION |-> "1", is_serializer |-> TRUE,
                      has_lookup |-> TRUE, has_delete |-> FALSE, KEY_FIELD |-> "id"]
      [] h = "HB" -> [MESSAGE_TYPE |-> "T1", VERSION |-> "1", is_serializer |-> FALSE,
                      has_lookup |-> TRUE, has_delete |-> TRUE, KEY_FIELD |-> None]
      [] h = "HC" -> [MESSAGE_TYPE |-> "T1", VERSION |-> "2", is_serializer |-> TRUE,
                      has_lookup |-> FALSE, has_delete |-> FALSE, KEY_FIELD |-> None]

\* payloads: the handlers declare the fields id and name, and their
\* validation requires a name that is not blank
PayloadOk == [id |-> "a", name |-> "n"]
PayloadBad == [id |-> "a"]
PayloadBlank == [id |-> "a", name |-> ""]
PayloadNoId == [name |-> "n"]
is_valid(data) == Has(data, "name") /\ data.name # ""

\* what Producer.send is called with
Instances == {PayloadOk, PayloadBad, PayloadBlank, PayloadNoId}
ActionTypes == {"save", "delete", "class", "bogus"}
Formats == {FORMAT_JSON, "pickle"}

\* settings MIN_MESSAGE_LAG_MS
MinLags == {0, 2, 3}

\* envelope bodies put on the wire
Bodies ==
    { [type |-> "T1", version |-> "1", message |-> PayloadOk, action_type |-> "save"],
      [type |-> "T1", version |-> "1", message |-> PayloadOk],
      [type |-> "T1", version |-> "1", message |-> PayloadBad, action_type |-> "save"],
      [type |-> "T1", version |-> "1", message |-> PayloadOk, action_type |-> "delete"],
      [type |-> "T1", version |-> "1", message |-> PayloadOk, action_type |-> "class"],
      [type |-> "T1", version |-> "1", message |-> PayloadOk, action_type |-> "bogus"],
      [type |-> "T1", version |-> "2", message |-> PayloadOk, action_type |-> "save"],
      [type |-> "T2", version |-> "1", message |-> PayloadOk, action_type |-> "save"],
      [version |-> "1", message |-> PayloadOk, action_type |-> "save"],
      [type |-> "T1", message |-> PayloadOk, action_type |-> "save"],
      [type |-> "T1", version |-> "1", action_type |-> "save"] }

\* wire format "<code><delim><body>": a value is the pair of its two parts
render(code, data) == [code |-> code, body |-> data]
parse(value) == value.body
split_code(value) == value.code

\* what the transport can hold: every body as JSON under key k1, and one body
\* without a key under another format code
Contents ==
    { [key |-> "k1", value |-> render(FORMAT_JSON, b)] : b \in Bodies }
    \cup { [key |-> None, value |-> render("pickle", [type |-> "T1", version |-> "1",
                                             message |-> PayloadOk, action_type |-> "save"])] }

\* errors a handler's save / delete / receive can raise
HandlerErrors == { [kind |-> "Exception", str |-> "db down"],
                   [kind |-> "ValidationError", str |-> "invalid"] }
Exc(kind) == [kind |-> kind, str |-> kind]

\* ------------------------------------------------------------------ state
VARIABLES
    serializer_classes,     \* Consumer.serializer_classes: type -> version -> handler class
    reg_log,                \* per consumer: the classes passed to register, in call order
    ignored_message_types,  \* Consumer.ignored_message_types
    throw_errors,           \* Consumer.throw_errors
    error_topic,            \* settings ERROR_TOPIC, read by every Consumer.__init__
    topic_len,              \* messages present in each consumer's topic
    position,               \* offset the transport client delivers next
    revealed,               \* content of the delivered, not yet committed message
    committed,              \* stored offset of each consumer (survives a restart)
    db,                     \* durable rows, each tagged <<consumer, offset, "full" | "partial">>
    txn,                    \* rows written inside the open transaction.atomic()
    sent,                   \* records handed to producer_client.send for the message fetched last
    mode,                   \* "single": Consumer.run, "multi": MultiConsumer.run
    dpc,                    \* "setup", "cycle", "running", "returned", "raised"
    turn,                   \* index of the consumer itertools.cycle yields next
    running,                \* consumer whose run() is executing
    pc,                     \* position inside Consumer.run
    i,                      \* Consumer.run's i
    iter_limit,             \* Consumer.run's iter_limit
    message,                \* Consumer.run's message
    serializer,             \* Consumer.run's serializer
    exc,                    \* the exception caught last (the e of the except clause)
    calls,                  \* calls made for the message fetched last, in order
    run_fetches,            \* messages fetched by the current run() call
    run_commits,            \* commits issued by the current run() call
    turns,                  \* run() calls MultiConsumer.run has seen return
    kills,                  \* kills so far
    last_commit,            \* per consumer: why the stored offset was last advanced
    producer,               \* the Producer: topic_name, serializer_class, and DEFAULT_FORMAT
    p_sent,                 \* records handed to Producer.client.send, in order
    p_log,                  \* for each of them, the arguments of the call and the body built
    p_call,                 \* the last call of Producer.send and how it ended
    delivered,              \* records of p_sent the consumer has decoded
    decoded,                \* what the consumer made of the record decoded last
    now,                    \* time.time() * 1000
    min_lag,                \* settings MIN_MESSAGE_LAG_MS
    t_pc,                   \* position inside _get_next_message: "fetch", "sleep", "decode"
    t_message,              \* the message fetched last: [timestamp |-> n], or Empty when
                            \* it carries no timestamp
    fetched_at,             \* the instant that message was fetched
    wake,                   \* the instant its time.sleep ends
    decoded_at              \* the instant _unserialize was called for it

config_vars == <<serializer_classes, reg_log, ignored_message_types, throw_errors, error_topic,
                 topic_len, mode>>
transport_vars == <<position, revealed, committed, last_commit>>
store_vars == <<db, txn, sent>>
run_vars == <<pc, i, iter_limit, message, serializer, exc>>
driver_vars == <<dpc, turn, running, turns>>
hist_vars == <<calls, run_fetches, run_commits, kills>>
consumer_vars == <<config_vars, transport_vars, store_vars, run_vars, driver_vars, hist_vars>>
producer_vars == <<producer, p_sent, p_log, p_call, delivered, decoded>>
throttle_vars == <<now, min_lag, t_pc, t_message, fetched_at, wake, decoded_at>>
vars == <<consumer_vars, producer_vars, throttle_vars>>

\* ---------------------------------------------------------- pure functions
\* Consumer.register keeping the class already in the (type, version) slot
register_KeepFirst(classes, serializer_class) ==
    LET message_type == Class(serializer_class).MESSAGE_TYPE
        version == Class(serializer_class).VERSION
        inner == IF Has(classes, message_type) THEN classes[message_type] ELSE Empty
    IN  IF Has(inner, version) THEN classes
        ELSE Put(classes, message_type, Put(inner, version, serializer_class))

\* Consumer.register
register(classes, serializer_class) ==
    LET message_type == Class(serializer_class).MESSAGE_TYPE
        version == Class(serializer_class).VERSION
        inner == IF Has(classes, message_type) THEN classes[message_type] ELSE Empty
    IN  Put(classes, message_type, Put(inner, version, serializer_class))

Raise(kind) == [ok |-> FALSE, exc |-> Exc(kind), serializer |-> Empty]
Return(s) == [ok |-> TRUE, exc |-> Empty, serializer |-> s]

\* the second half of Consumer._unserialize: version lookup and construction
\* of the handler for a type that is registered
Construct(classes, data, found) ==
    LET message_type == data.type
        action_type == IF Has(data, "action_type") THEN data.action_type ELSE "save"
    IN
    IF ~Has(classes[message_type], data.version) THEN Raise("UnknownMessageVersionError")
    ELSE
    LET serializer_class == classes[message_type][data.version]
        is_serializer == Class(serializer_class).is_serializer
        instance == IF Class(serializer_class).has_lookup /\ is_serializer THEN found ELSE None
    IN
    CASE action_type = "save" ->
            IF is_valid(data.message)
            THEN Return([cls |-> serializer_class, instance |-> instance,
                         data |-> data.message, _action_type |-> action_type])
            ELSE Raise("ValidationError")
      [] action_type = "delete" ->
            Return([cls |-> serializer_class, instance |-> instance,
                    data |-> Empty, _action_type |-> action_type])
      [] action_type = "class" ->
            Return([cls |-> serializer_class, instance |-> None,
                    data |-> data.message, _action_type |-> action_type])
      [] OTHER -> Raise("NotImplementedError")

\* _unserialize looking the type up in the registry before the ignored set
_unserialize_RegisteredFirst(classes, ignored, m, found) ==
    LET data == parse(m.value) IN
    IF ~Has(data, "type") THEN Raise("InvalidMessageError")
    ELSE IF ~Has(data, "version") THEN Raise("InvalidMessageError")
    ELSE IF ~Has(data, "message") THEN Raise("InvalidMessageError")
    ELSE IF Has(classes, data.type) THEN Construct(classes, data, found)
    ELSE IF data.type \in ignored THEN Raise("IgnoredMessageTypeError")
    ELSE Raise("UnknownMessageTypeError")

\* Consumer._unserialize; found is what lookup_instance returns for the payload
_unserialize(classes, ignored, m, found) ==
    LET data == parse(m.value) IN
    IF ~Has(data, "type") THEN Raise("InvalidMessageError")
    ELSE IF ~Has(data, "version") THEN Raise("InvalidMessageError")
    ELSE IF ~Has(data, "message") THEN Raise("InvalidMessageError")
    ELSE IF data.type \in ignored THEN Raise("IgnoredMessageTypeError")
    ELSE IF ~Has(classes, data.type) THEN Raise("UnknownMessageTypeError")
    ELSE Construct(classes, data, found)

\* consumer_error_handler without its except ValidationError clause
HandledKinds_NoValidationError ==
    {"InvalidMessageError", "IgnoredMessageTypeError", "UnknownMessageTypeError",
     "UnknownMessageVersionError"}

\* consumer_error_handler with one more clause, except NotImplementedError
HandledKinds_WithNotImplemented ==
    {"InvalidMessageError", "IgnoredMessageTypeError", "UnknownMessageTypeError",
     "UnknownMessageVersionError", "ValidationError", "NotImplementedError"}

\* the except clauses of consumer_error_handler
HandledKinds == {"InvalidMessageError", "IgnoredMessageTypeError", "UnknownMessageTypeError",
                 "UnknownMessageVersionError", "ValidationError"}

\* Consumer.__iter__ with the throw_errors test inverted
UsesErrorHandler_Inverted(c) == throw_errors[c]

\* Consumer.__iter__: the error handler wraps the consumer unless throw_errors
UsesErrorHandler(c) == ~throw_errors[c]

\* the offset backend's commit: the stored offset moves to at least offset + 1
StoredOffsetAfter(stored, m) == IF m.offset + 1 > stored THEN m.offset + 1 ELSE stored

\* Consumer.commit with the offset backend's commit left out
commit_Dropped(c, m, why) ==
    /\ UNCHANGED committed
    /\ revealed' = [revealed EXCEPT ![c] = Empty]
    /\ last_commit' = [last_commit EXCEPT ![c] = [offset |-> m.offset, why |-> why]]
    /\ run_commits' = run_commits + 1

\* Consumer.commit
commit(c, m, why) ==
    /\ committed' = [committed EXCEPT ![c] = StoredOffsetAfter(@, m)]
    /\ revealed' = [revealed EXCEPT ![c] = Empty]
    /\ last_commit' = [last_commit EXCEPT ![c] = [offset |-> m.offset, why |-> why]]
    /\ run_commits' = run_commits + 1

\* send_message_to_error_topic rendering with the default format code
ErrorRecord_DefaultCode(topic, m, error) ==
    LET data == Put(Put(parse(m.value), "error", error), "can_retry", TRUE)
    IN  [topic |-> topic, key |-> m.key, value |-> render(FORMAT_JSON, data)]

\* the record Consumer.send_message_to_error_topic hands to the producer
ErrorRecord(topic, m, error) ==
    LET data == Put(Put(parse(m.value), "error", error), "can_retry", TRUE)
        code == split_code(m.value)
    IN  [topic |-> topic, key |-> m.key, value |-> render(code, data)]

\* Consumer.run dead-lettering whether or not ERROR_TOPIC is set
DeadLetters_Always(topic) == TRUE

\* if self.error_topic: the dead-letter branch of Consumer.run
DeadLetters(topic) == topic # None

\* the loop exit test of Consumer.run
Breaks(limit, n) == limit > 0 /\ n >= limit

\* Consumer.run with the save and class branches exchanged
Method_Swapped(action_type) ==
    CASE action_type = "delete" -> "delete"
      [] action_type = "save" -> "receive"
      [] action_type = "class" -> "save"
      [] OTHER -> "nothing"

\* the handler method Consumer.run calls for an action type
Method(action_type) ==
    CASE action_type = "delete" -> "delete"
      [] action_type = "save" -> "save"
      [] action_type = "class" -> "receive"
      [] OTHER -> "nothing"

NextTurn(t) == (t % Cardinality(Consumers)) + 1

\* ser.data: the handler's representation of an instance.  It reads every
\* declared field off the instance and validates nothing.
Fields == {"id", "name"}
Representable(instance) == Fields \subseteq DOMAIN instance
Data(instance) == [f \in Fields |-> instance[f]]

Failed(kind) == [ok |-> FALSE, exc |-> kind, body |-> Empty, record |-> Empty]
Handed(topic_name, key, format, body) ==
    [ok |-> TRUE, exc |-> None, body |-> body,
     record |-> [topic |-> topic_name, key |-> key, value |-> render(format, body)]]

\* Producer.send without the key-field test of the delete / class branch
Producer_send_NoKeyFieldTest(p, instance, action_type) ==
    LET cls == Class(p.serializer_class)
        key_field == cls.KEY_FIELD
        envelope(payload) == [type |-> cls.MESSAGE_TYPE, version |-> cls.VERSION,
                              message |-> payload, action_type |-> action_type]
    IN
    CASE action_type = "save" ->
            IF ~Representable(instance) THEN Failed("KeyError")
            ELSE Handed(p.topic_name,
                        IF key_field # None THEN Data(instance)[key_field] ELSE None,
                        p.format, envelope(Data(instance)))
      [] action_type \in {"delete", "class"} ->
            IF key_field # None /\ ~Has(instance, key_field) THEN Failed("KeyError")
            ELSE Handed(p.topic_name,
                        IF key_field # None THEN instance[key_field] ELSE None,
                        p.format, envelope(instance))
      [] OTHER -> Failed("NotImplementedError")

\* Producer.send leaving action_type out of the body
Producer_send_NoActionType(p, instance, action_type) ==
    LET cls == Class(p.serializer_class)
        key_field == cls.KEY_FIELD
        envelope(payload) == [type |-> cls.MESSAGE_TYPE, version |-> cls.VERSION,
                              message |-> payload]
    IN
    CASE action_type = "save" ->
            IF ~Representable(instance) THEN Failed("KeyError")
            ELSE Handed(p.topic_name,
                        IF key_field # None THEN Data(instance)[key_field] ELSE None,
                        p.format, envelope(Data(instance)))
      [] action_type \in {"delete", "class"} ->
            IF key_field = None THEN Failed("KeyError")
            ELSE IF ~Has(instance, key_field) THEN Failed("KeyError")
            ELSE Handed(p.topic_name, instance[key_field], p.format, envelope(instance))
      [] OTHER -> Failed("NotImplementedError")

\* Producer.send up to the call of self.client.send: the exception it raises,
\* or the body it built and the record it hands to the transport.  Keys are
\* strings already, so str() leaves them as they are.
Producer_send(p, instance, action_type) ==
    LET cls == Class(p.serializer_class)
        key_field == cls.KEY_FIELD
        envelope(payload) == [type |-> cls.MESSAGE_TYPE, version |-> cls.VERSION,
                              message |-> payload, action_type |-> action_type]
    IN
    CASE action_type = "save" ->
            IF ~Representable(instance) THEN Failed("KeyError")
            ELSE Handed(p.topic_name,
                        IF key_field # None THEN Data(instance)[key_field] ELSE None,
                        p.format, envelope(Data(instance)))
      [] action_type \in {"delete", "class"} ->
            IF key_field = None THEN Failed("KeyError")
            ELSE IF ~Has(instance, key_field) THEN Failed("KeyError")
            ELSE Handed(p.topic_name, instance[key_field], p.format, envelope(instance))
      [] OTHER -> Failed("NotImplementedError")

\* timestamp = getattr(message, "timestamp", None) or (time.time() * 1000):
\* Python's or takes the right operand when the left one is None or 0
TimestampOr(m, t) ==
    IF ~Has(m, "timestamp") THEN t
    ELSE IF m.timestamp = 0 THEN t
    ELSE m.timestamp

\* wait_ms of _get_next_message for a message fetched at instant t
wait_ms(m, t, min_message_lag_ms) ==
    LET lag_ms == t - TimestampOr(m, t)
    IN  min_message_lag_ms - lag_ms

\* ------------------------------------------------------------------- Init
\* Consumer.__init__ for every consumer; the topics already hold their messages
InitCommon ==
    /\ error_topic \in ErrorTopics
    /\ position = [c \in Consumers |-> 0]
    /\ revealed = [c \in Consumers |-> Empty]
    /\ committed = [c \in Consumers |-> 0]
    /\ last_commit = [c \in Consumers |-> Empty]
    /\ db = {} /\ txn = {} /\ sent = <<>>
    /\ turn = 1 /\ running = 0 /\ turns = 0
    /\ pc = "idle" /\ i = 0 /\ iter_limit = 0
    /\ message = Empty /\ serializer = Empty /\ exc = Empty
    /\ calls = <<>> /\ run_fetches = 0 /\ run_commits = 0 /\ kills = 0

\* no Producer is in use
ProducerIdle ==
    /\ producer = Empty /\ p_sent = <<>> /\ p_log = <<>> /\ p_call = Empty
    /\ delivered = 0 /\ decoded = Empty

\* the clock is not observed and MIN_MESSAGE_LAG_MS is left at its default
ThrottleIdle ==
    /\ now = 0 /\ min_lag = 0 /\ t_pc = "idle" /\ t_message = Empty
    /\ fetched_at = 0 /\ wake = 0 /\ decoded_at = 0

\* one Consumer, constructed and not yet registered with anything
Init ==
    /\ InitCommon /\ ProducerIdle /\ ThrottleIdle
    /\ mode = "single" /\ dpc = "setup"
    /\ serializer_classes = [c \in Consumers |-> Empty]
    /\ reg_log = [c \in Consumers |-> <<>>]
    /\ ignored_message_types = [c \in Consumers |-> {}]
    /\ throw_errors \in [Consumers -> BOOLEAN] /\ \A c \in Consumers \ {1} : ~throw_errors[c]
    /\ topic_len \in [Consumers -> 0..MaxMessages] /\ \A c \in Consumers \ {1} : topic_len[c] = 0

\* MultiConsumer(*consumers): every consumer is registered with HA, the first
\* one ignores T2, none throws errors
InitMulti ==
    /\ InitCommon /\ ProducerIdle /\ ThrottleIdle
    /\ mode = "multi" /\ dpc = "cycle"
    /\ serializer_classes = [c \in Consumers |-> register(Empty, "HA")]
    /\ reg_log = [c \in Consumers |-> <<"HA">>]
    /\ ignored_message_types = [c \in Consumers |-> IF c = 1 THEN {"T2"} ELSE {}]
    /\ throw_errors = [c \in Consumers |-> FALSE]
    /\ topic_len \in [Consumers -> 0..MaxMessages]

\* a Consumer that is constructed and whose run() is not called
ConsumerIdle ==
    /\ InitCommon /\ error_topic = None /\ dpc = "returned"
    /\ throw_errors = [c \in Consumers |-> FALSE]
    /\ topic_len = [c \in Consumers |-> 0]

\* Producer(topic_name, serializer_class) and a Consumer of the same topic
\* registered with the same class
InitProducer ==
    /\ ConsumerIdle /\ ThrottleIdle /\ mode = "producer"
    /\ \E h \in Handlers, format \in Formats :
         /\ producer = [topic_name |-> 1, serializer_class |-> h, format |-> format]
         /\ serializer_classes = [c \in Consumers |-> register(Empty, h)]
         /\ reg_log = [c \in Consumers |-> <<h>>]
    /\ \E ignored \in SUBSET IgnorableTypes :
         ignored_message_types = [c \in Consumers |-> ignored]
    /\ p_sent = <<>> /\ p_log = <<>> /\ p_call = Empty
    /\ delivered = 0 /\ decoded = Empty

\* a Consumer about to fetch, at some instant, under some MIN_MESSAGE_LAG_MS
InitThrottle ==
    /\ ConsumerIdle /\ ProducerIdle /\ mode = "throttle"
    /\ serializer_classes = [c \in Consumers |-> Empty]
    /\ reg_log = [c \in Consumers |-> <<>>]
    /\ ignored_message_types = [c \in Consumers |-> {}]
    /\ now \in 0..MaxTime /\ min_lag \in MinLags
    /\ t_pc = "fetch" /\ t_message = Empty
    /\ fetched_at = 0 /\ wake = 0 /\ decoded_at = 0

\* ---------------------------------------------------------------- actions
\* Consumer.register, called at start-up
Register(c, h) ==
    /\ dpc = "setup" /\ Len(reg_log[c]) < MaxRegs
    /\ serializer_classes' = [serializer_classes EXCEPT ![c] = register(@, h)]
    /\ reg_log' = [reg_log EXCEPT ![c] = Append(@, h)]
    /\ UNCHANGED <<producer_vars, throttle_vars,
                   ignored_message_types, throw_errors, error_topic, topic_len, mode,
                   transport_vars, store_vars, run_vars, driver_vars, hist_vars>>

\* Consumer.add_ignored_message_type, called at start-up
AddIgnoredMessageType(c, t) ==
    /\ dpc = "setup" /\ t \notin ignored_message_types[c]
    /\ ignored_message_types' = [ignored_message_types EXCEPT ![c] = @ \cup {t}]
    /\ UNCHANGED <<producer_vars, throttle_vars,
                   serializer_classes, reg_log, throw_errors, error_topic, topic_len, mode,
                   transport_vars, store_vars, run_vars, driver_vars, hist_vars>>

\* entry of Consumer.run(iter_limit): i = 0 and the iterator is made
EnterRun(c, limit) ==
    /\ dpc' = "running" /\ running' = c
    /\ pc' = "next" /\ i' = 0 /\ iter_limit' = limit
    /\ message' = Empty /\ serializer' = Empty /\ exc' = Empty
    /\ calls' = <<>> /\ run_fetches' = 0 /\ run_commits' = 0

\* a direct call of Consumer.run
ConsumerRun(c, limit) ==
    /\ mode = "single" /\ dpc = "setup"
    /\ EnterRun(c, limit)
    /\ UNCHANGED <<producer_vars, throttle_vars, config_vars, transport_vars, store_vars, turn, turns, kills>>

\* MultiConsumer.run: the next consumer of the cycle runs with iter_limit=1
MultiConsumerRun ==
    /\ mode = "multi" /\ dpc = "cycle"
    /\ EnterRun(turn, 1)
    /\ UNCHANGED <<producer_vars, throttle_vars, config_vars, transport_vars, store_vars, turn, turns, kills>>

\* Consumer.run returns (the for loop broke) or raises
Leave(raised) ==
    IF raised
    THEN dpc' = "raised" /\ pc' = "idle" /\ UNCHANGED <<turn, turns, running>>
    ELSE /\ pc' = "idle"
         /\ IF mode = "multi"
            THEN dpc' = "cycle" /\ turn' = NextTurn(turn) /\ turns' = turns + 1
                 /\ UNCHANGED running
            ELSE dpc' = "returned" /\ UNCHANGED <<turn, turns, running>>

\* one next() of the for loop's iterator: Consumer._get_next_message under
\* consumer_error_handler.  The transport blocks while the topic has no
\* undelivered message.
NextMessage(c) ==
    /\ dpc = "running" /\ running = c /\ pc = "next"
    /\ position[c] < topic_len[c]
    /\ \E content \in Contents, found \in {None, "obj"} :
        /\ revealed[c] # Empty => content = revealed[c]
        /\ LET m == [key |-> content.key, value |-> content.value,
                     topic |-> c, offset |-> position[c]]
               r == _unserialize(serializer_classes[c], ignored_message_types[c], m, found)
           IN
           /\ position' = [position EXCEPT ![c] = @ + 1]
           /\ run_fetches' = run_fetches + 1
           /\ message' = m /\ sent' = <<>>
           /\ IF r.ok
              THEN \* yield next(inner): the loop body starts
                   /\ serializer' = r.serializer /\ exc' = Empty
                   /\ pc' = "apply"
                   /\ calls' = <<"fetch">>
                   /\ revealed' = [revealed EXCEPT ![c] = content]
                   /\ UNCHANGED <<committed, last_commit, run_commits, dpc, turn, turns, running>>
              ELSE IF UsesErrorHandler(c) /\ r.exc.kind \in HandledKinds
              THEN \* an except clause commits e.message and the while loop goes on
                   /\ commit(c, m, r.exc.kind)
                   /\ serializer' = Empty /\ exc' = r.exc
                   /\ pc' = "next"
                   /\ calls' = <<"fetch", "raise", "commit">>
                   /\ UNCHANGED <<dpc, turn, turns, running>>
              ELSE \* the exception leaves the iterator and Consumer.run
                   /\ serializer' = Empty /\ exc' = r.exc
                   /\ calls' = <<"fetch", "raise">>
                   /\ revealed' = [revealed EXCEPT ![c] = content]
                   /\ Leave(TRUE)
                   /\ UNCHANGED <<committed, last_commit, run_commits>>
    /\ UNCHANGED <<producer_vars, throttle_vars, config_vars, db, txn, i, iter_limit, kills>>

\* the handler call of Consumer.run, inside transaction.atomic()
Apply(c) ==
    /\ dpc = "running" /\ running = c /\ pc = "apply"
    /\ LET method == Method(serializer._action_type)
           row(w) == <<c, message.offset, w>>
       IN
       IF method = "delete" /\ ~Class(serializer.cls).has_delete /\ serializer.instance = None
       THEN \* serializer.instance.delete() on None
            /\ exc' = [kind |-> "AttributeError", str |-> "NoneType has no delete"]
            /\ calls' = calls \o <<method, "raised">>
            /\ pc' = "except"
            /\ UNCHANGED txn
       ELSE \/ /\ txn' = txn \cup {row("full")}
               /\ calls' = calls \o <<method, "returned">>
               /\ pc' = "commit"
               /\ UNCHANGED exc
            \/ \E e \in HandlerErrors, wrote \in BOOLEAN :
               /\ txn' = IF wrote THEN txn \cup {row("partial")} ELSE txn
               /\ exc' = e
               /\ calls' = calls \o <<method, "raised">>
               /\ pc' = "except"
    /\ UNCHANGED <<producer_vars, throttle_vars, config_vars, transport_vars, db, sent, i, iter_limit, message,
                   serializer, driver_vars, run_fetches, run_commits, kills>>

\* self.commit(message) after the handler call returned
CommitMessage(c) ==
    /\ dpc = "running" /\ running = c /\ pc = "commit"
    /\ commit(c, message, "applied")
    /\ calls' = calls \o <<"commit">>
    /\ pc' = "exit"
    /\ UNCHANGED <<producer_vars, throttle_vars, config_vars, position, store_vars, i, iter_limit, message, serializer, exc,
                   driver_vars, run_fetches, kills>>

\* the except clause of Consumer.run treating the kinds consumer_error_handler
\* catches as that handler does: commit and go on
HandleException_SkipsHandledKinds(c) ==
    /\ dpc = "running" /\ running = c /\ pc = "except"
    /\ IF exc.kind \in HandledKinds
       THEN /\ commit(c, message, exc.kind)
            /\ calls' = calls \o <<"commit">>
            /\ pc' = "exit"
            /\ UNCHANGED <<sent, txn, dpc, turn, turns, running>>
       ELSE IF DeadLetters(error_topic)
       THEN /\ sent' = Append(sent, ErrorRecord(error_topic, message, exc.str))
            /\ \/ /\ commit(c, message, "dead-lettered")
                  /\ calls' = calls \o <<"send", "commit">>
                  /\ pc' = "exit"
                  /\ UNCHANGED <<txn, dpc, turn, turns, running>>
               \/ /\ calls' = calls \o <<"send", "raise">>
                  /\ txn' = {}
                  /\ Leave(TRUE)
                  /\ UNCHANGED <<transport_vars, run_commits>>
       ELSE /\ calls' = calls \o <<"raise">>
            /\ txn' = {}
            /\ Leave(TRUE)
            /\ UNCHANGED <<sent, transport_vars, run_commits>>
    /\ UNCHANGED <<producer_vars, throttle_vars, config_vars, position, db, i, iter_limit, message, serializer, exc,
                   run_fetches, kills>>

\* the except clause of Consumer.run committing the message before it sends
\* the record to the error topic
HandleException_CommitFirst(c) ==
    /\ dpc = "running" /\ running = c /\ pc = "except"
    /\ IF DeadLetters(error_topic)
       THEN /\ commit(c, message, "dead-lettered")
            /\ sent' = Append(sent, ErrorRecord(error_topic, message, exc.str))
            /\ \/ /\ calls' = calls \o <<"commit", "send">>
                  /\ pc' = "exit"
                  /\ UNCHANGED <<txn, dpc, turn, turns, running>>
               \/ /\ calls' = calls \o <<"commit", "send", "raise">>
                  /\ txn' = {}
                  /\ Leave(TRUE)
       ELSE /\ calls' = calls \o <<"raise">>
            /\ txn' = {}
            /\ Leave(TRUE)
            /\ UNCHANGED <<sent, transport_vars, run_commits>>
    /\ UNCHANGED <<producer_vars, throttle_vars, config_vars, position, db, i, iter_limit, message, serializer, exc,
                   run_fetches, kills>>

\* except Exception as e: dead-letter when ERROR_TOPIC is set, else raise e.
\* An exception that leaves the with block rolls the transaction back.
HandleException(c) ==
    /\ dpc = "running" /\ running = c /\ pc = "except"
    /\ IF DeadLetters(error_topic)
       THEN \* Consumer.send_message_to_error_topic
            /\ sent' = Append(sent, ErrorRecord(error_topic, message, exc.str))
            /\ \/ /\ commit(c, message, "dead-lettered")
                  /\ calls' = calls \o <<"send", "commit">>
                  /\ pc' = "exit"
                  /\ UNCHANGED <<txn, dpc, turn, turns, running>>
               \/ \* the producer's send raises
                  /\ calls' = calls \o <<"send", "raise">>
                  /\ txn' = {}
                  /\ Leave(TRUE)
                  /\ UNCHANGED <<transport_vars, run_commits>>
       ELSE /\ calls' = calls \o <<"raise">>
            /\ txn' = {}
            /\ Leave(TRUE)
            /\ UNCHANGED <<sent, transport_vars, run_commits>>
    /\ UNCHANGED <<producer_vars, throttle_vars, config_vars, position, db, i, iter_limit, message, serializer, exc,
                   run_fetches, kills>>

\* the with block ends normally: the transaction commits; then i += 1 and the
\* iter_limit test
ExitAtomic(c) ==
    /\ dpc = "running" /\ running = c /\ pc = "exit"
    /\ db' = db \cup txn /\ txn' = {}
    /\ i' = i + 1
    /\ calls' = calls \o <<"end">>
    /\ IF Breaks(iter_limit, i + 1)
       THEN Leave(FALSE)
       ELSE pc' = "next" /\ UNCHANGED <<dpc, turn, turns, running>>
    /\ UNCHANGED <<producer_vars, throttle_vars, config_vars, transport_vars, sent, iter_limit, message, serializer,
                   exc, run_fetches, run_commits, kills>>

\* the process is killed and started again: the open transaction is rolled
\* back, the transport client resumes at the stored offsets
Kill ==
    /\ dpc = "running" /\ kills < MaxKills
    /\ kills' = kills + 1
    /\ txn' = {}
    /\ position' = committed
    /\ EnterRun(running, iter_limit)
    /\ UNCHANGED <<producer_vars, throttle_vars, config_vars, revealed, committed, last_commit, db, sent, turn, turns>>

\* one call of Producer.send
Send(instance, action_type) ==
    /\ mode = "producer" /\ Len(p_sent) < MaxSends
    /\ LET r == Producer_send(producer, instance, action_type) IN
       /\ p_call' = [instance |-> instance, action_type |-> action_type, exc |-> r.exc,
                     sent_before |-> Len(p_sent)]
       /\ IF r.ok
          THEN /\ p_sent' = Append(p_sent, r.record)
               /\ p_log' = Append(p_log, [instance |-> instance, action_type |-> action_type,
                                          body |-> r.body])
          ELSE UNCHANGED <<p_sent, p_log>>
    /\ UNCHANGED <<producer, delivered, decoded, consumer_vars, throttle_vars>>

\* the Consumer receives the next record the Producer sent: _unserialize,
\* and the method Consumer.run calls on what it returns
DecodeSent ==
    /\ mode = "producer" /\ delivered < Len(p_sent)
    /\ \E found \in {None, "obj"} :
        LET sent_record == p_sent[delivered + 1]
            m == [key |-> sent_record.key, value |-> sent_record.value,
                  topic |-> sent_record.topic, offset |-> delivered]
            r == _unserialize(serializer_classes[1], ignored_message_types[1], m, found)
        IN  decoded' = [index |-> delivered + 1, data |-> parse(m.value), ok |-> r.ok,
                        exc |-> r.exc, serializer |-> r.serializer,
                        method |-> IF r.ok THEN Method(r.serializer._action_type)
                                   ELSE "nothing"]
    /\ delivered' = delivered + 1
    /\ UNCHANGED <<producer, p_sent, p_log, p_call, consumer_vars, throttle_vars>>

\* the clock advances; a sleeping pipeline is woken when its sleep ends
Tick ==
    /\ mode = "throttle" /\ now < MaxTime
    /\ t_pc = "sleep" => now < wake
    /\ now' = now + 1
    /\ UNCHANGED <<min_lag, t_pc, t_message, fetched_at, wake, decoded_at,
                   consumer_vars, producer_vars>>

\* _get_next_message up to time.sleep: next(self.consumer) returns a message,
\* which carries no timestamp or an instant from 0 to one past the clock, and
\* the wait is computed
ThrottleFetch ==
    /\ mode = "throttle" /\ t_pc = "fetch"
    /\ \E m \in {Empty} \cup {[timestamp |-> n] : n \in 0..(now + 1)} :
        /\ t_message' = m /\ fetched_at' = now
        /\ IF wait_ms(m, now, min_lag) > 0
           THEN t_pc' = "sleep" /\ wake' = now + wait_ms(m, now, min_lag)
           ELSE t_pc' = "decode" /\ wake' = now
    /\ UNCHANGED <<now, min_lag, decoded_at, consumer_vars, producer_vars>>

\* time.sleep returns
Wake ==
    /\ mode = "throttle" /\ t_pc = "sleep" /\ now >= wake
    /\ t_pc' = "decode"
    /\ UNCHANGED <<now, min_lag, t_message, fetched_at, wake, decoded_at,
                   consumer_vars, producer_vars>>

\* self._unserialize(message) is called; the pipeline then fetches again
ThrottleDecode ==
    /\ mode = "throttle" /\ t_pc = "decode"
    /\ decoded_at' = now /\ t_pc' = "fetch"
    /\ UNCHANGED <<now, min_lag, t_message, fetched_at, wake, consumer_vars, producer_vars>>

Next ==
    \/ \E h \in Handlers : Register(1, h)
    \/ \E t \in IgnorableTypes : AddIgnoredMessageType(1, t)
    \/ \E limit \in IterLimits : ConsumerRun(1, limit)
    \/ \E c \in Consumers : NextMessage(c)
    \/ \E c \in Consumers : Apply(c)
    \/ \E c \in Consumers : CommitMessage(c)
    \/ \E c \in Consumers : HandleException(c)
    \/ \E c \in Consumers : ExitAtomic(c)
    \/ Kill

NextMulti ==
    \/ MultiConsumerRun
    \/ \E c \in Consumers : NextMessage(c)
    \/ \E c \in Consumers : Apply(c)
    \/ \E c \in Consumers : CommitMessage(c)
    \/ \E c \in Consumers : HandleException(c)
    \/ \E c \in Consumers : ExitAtomic(c)

NextProducer ==
    \/ \E instance \in Instances, action_type \in ActionTypes : Send(instance, action_type)
    \/ DecodeSent

NextThrottle ==
    \/ Tick
    \/ ThrottleFetch
    \/ Wake
    \/ ThrottleDecode

Spec == Init /\ [][Next]_vars
SpecMulti == InitMulti /\ [][NextMulti]_vars
SpecProducer == InitProducer /\ [][NextProducer]_vars
SpecThrottle == InitThrottle /\ [][NextThrottle]_vars

TypeOK ==
    /\ dpc \in {"setup", "cycle", "running", "returned", "raised"}
    /\ t_pc \in {"idle", "fetch", "sleep", "decode"}
    /\ delivered <= Len(p_sent) /\ Len(p_sent) = Len(p_log)
    /\ pc \in {"idle", "next", "apply", "commit", "except", "exit"}
    /\ \A c \in Consumers : committed[c] <= position[c] \/ kills > 0

\* ------------------------------------------------------------ properties
\* how often, and where, a call appears among the calls made for the message
Count(ev) == Cardinality({k \in DOMAIN calls : calls[k] = ev})
Precedes(a, b) == \A j \in DOMAIN calls : calls[j] = b => \E k \in 1..(j - 1) : calls[k] = a

\* the pipeline has finished with the message it fetched last
Done == calls # <<>> /\ (pc = "next" \/ dpc # "running")

\* the envelope of the message fetched last, and its classification
Body == message.value.body
EnvelopeValid(b) == {"type", "version", "message"} \subseteq DOMAIN b
ActionOf(b) == IF "action_type" \in DOMAIN b THEN b.action_type ELSE "save"
Registered(c, b) ==
    /\ b.type \in DOMAIN serializer_classes[c]
    /\ b.version \in DOMAIN serializer_classes[c][b.type]
SkipKind(c, b) ==
    IF ~EnvelopeValid(b) THEN "MalformedEnvelope"
    ELSE IF b.type \in ignored_message_types[c] THEN "IgnoredType"
    ELSE IF b.type \notin DOMAIN serializer_classes[c] THEN "UnknownType"
    ELSE IF b.version \notin DOMAIN serializer_classes[c][b.type] THEN "UnknownVersion"
    ELSE IF ActionOf(b) = "save" /\ ~is_valid(b.message) THEN "InvalidPayload"
    ELSE "none"
HandlerRaised == Count("raised") = 1
HandlerReturned == Count("returned") = 1
SendRaised == HandlerRaised /\ Count("raise") = 1

\* C1 as stated: every valid envelope with a registered (type, version) and
\* action_type save (or absent) gets exactly one save and exactly one commit,
\* the save first.
C1_SaveThenCommit_AsStated ==
    (Done /\ EnvelopeValid(Body) /\ Registered(running, Body) /\ ActionOf(Body) = "save")
        => /\ Count("save") = 1 /\ Count("commit") = 1
           /\ Precedes("returned", "commit")

\* C1 amended: when moreover the type is not ignored, the payload passes the
\* handler's validation and the save returns, the run calls save once, then
\* commit once, and nothing else for that message.
C1_SaveThenCommit ==
    (Done /\ EnvelopeValid(Body) /\ Registered(running, Body) /\ ActionOf(Body) = "save"
          /\ Body.type \notin ignored_message_types[running]
          /\ is_valid(Body.message) /\ HandlerReturned)
        => /\ calls = <<"fetch", "save", "returned", "commit", "end">>
           /\ committed[running] = message.offset + 1

C1_Witness ==
    /\ Done /\ EnvelopeValid(Body) /\ Registered(running, Body)
    /\ ~Has(Body, "action_type") /\ HandlerReturned
    /\ Count("save") = 1 /\ Count("commit") = 1

\* C2: once no transaction is open, a stored offset that was advanced because
\* the handler call returned has that message's rows durable: a kill inside
\* the transactional boundary leaves the message uncommitted.
C2_CommittedImpliesApplied ==
    \A c \in Consumers :
        (txn = {} /\ last_commit[c] # Empty /\ last_commit[c].why = "applied")
            => <<c, last_commit[c].offset, "full">> \in db

\* C3: after a handler call that raised has been dealt with, the database
\* holds no row written by that call, with and without ERROR_TOPIC.
C3_FailedActionLeavesNothing ==
    (Done /\ HandlerRaised)
        => \A w \in {"partial", "full"} : <<running, message.offset, w>> \notin db

\* the message's outcome is one of the non-fatal ones; a dead-letter send that
\* raises is the separate, fatal outcome
NonFatal ==
    \/ SkipKind(running, Body) # "none"
    \/ HandlerReturned
    \/ HandlerRaised /\ error_topic # None /\ ~SendRaised
OutcomeKnownBeforeCommit ==
    \/ Precedes("raise", "commit") /\ Count("raise") = 1
    \/ Precedes("returned", "commit") /\ HandlerReturned
    \/ Precedes("raised", "commit") /\ HandlerRaised

\* C4 as stated: every fetched message with a non-fatal outcome is committed
\* exactly once, after the outcome is known.
C4_CommitOnce_AsStated ==
    /\ Count("commit") <= 1
    /\ (Done /\ NonFatal)
        => /\ Count("commit") = 1 /\ OutcomeKnownBeforeCommit
           /\ committed[running] = message.offset + 1

\* C4 amended: the same, for a Consumer constructed with throw_errors=False.
C4_CommitOnce ==
    /\ Count("commit") <= 1
    /\ (Done /\ NonFatal /\ ~throw_errors[running])
        => /\ Count("commit") = 1 /\ OutcomeKnownBeforeCommit
           /\ committed[running] = message.offset + 1

C4_Witness ==
    /\ Done /\ ~throw_errors[running] /\ SkipKind(running, Body) = "InvalidPayload"
    /\ Count("commit") = 1

\* C5: with ERROR_TOPIC set, a handler call that raised E leads to one send,
\* to the error topic, under the message's key, with the message's format
\* code and body plus error = str(E) and can_retry = true; a commit of the
\* message comes after the send, and is issued once the send has returned.
C5_DeadLetterRecord ==
    (error_topic # None /\ HandlerRaised /\ pc # "except")
        => /\ Count("send") = 1 /\ Len(sent) = 1
           /\ sent[1].topic = error_topic
           /\ sent[1].key = message.key
           /\ sent[1].value.code = message.value.code
           /\ DOMAIN sent[1].value.body = DOMAIN Body \cup {"error", "can_retry"}
           /\ \A k \in DOMAIN Body : sent[1].value.body[k] = Body[k]
           /\ sent[1].value.body.error = exc.str
           /\ sent[1].value.body.can_retry = TRUE
           /\ Precedes("send", "commit")
           /\ ~SendRaised => Count("commit") = 1

C5_Witness ==
    /\ error_topic # None /\ HandlerRaised /\ Done /\ ~SendRaised
    /\ message.value.code # FORMAT_JSON /\ message.key = None
    /\ Len(sent) = 1 /\ Count("commit") = 1

\* C6: without ERROR_TOPIC, a handler call that raises makes Consumer.run
\* raise: the message is not committed, nothing is sent, and the run fetches
\* no further message.
C6_FatalWithoutErrorTopic ==
    (error_topic = None /\ HandlerRaised /\ pc # "except")
        => /\ dpc = "raised"
           /\ Count("commit") = 0 /\ committed[running] <= message.offset
           /\ sent = <<>> /\ Count("send") = 0
           /\ position[running] = message.offset + 1

C6_Witness ==
    /\ error_topic = None /\ HandlerRaised /\ dpc = "raised"
    /\ position[running] < topic_len[running]

\* C7 as stated: for every configuration, a message of one of the five
\* skip kinds is committed and the run goes on to the next message.
C7_SkipAndContinue_AsStated ==
    (Done /\ SkipKind(running, Body) # "none")
        => /\ committed[running] = message.offset + 1
           /\ dpc = "running" /\ pc = "next"

\* C7 amended: the same, for a Consumer constructed with throw_errors=False.
C7_SkipAndContinue ==
    (Done /\ SkipKind(running, Body) # "none" /\ ~throw_errors[running])
        => /\ committed[running] = message.offset + 1
           /\ calls = <<"fetch", "raise", "commit">>
           /\ dpc = "running" /\ pc = "next"

C7_Witness ==
    /\ Done /\ ~throw_errors[running] /\ SkipKind(running, Body) = "UnknownVersion"
    /\ committed[running] = 2 /\ pc = "next"

\* C8: under MultiConsumer.run a fatal handler error stops only its own
\* pipeline: the driver is never stopped by it while another pipeline still
\* has messages to process.
C8_OthersContinue ==
    (mode = "multi" /\ dpc = "raised" /\ HandlerRaised /\ error_topic = None)
        => \A d \in Consumers \ {running} : position[d] = topic_len[d]

\* C9: a turn of MultiConsumer.run is one fetch-through-commit cycle: the
\* run fetches one message and commits that one message.
C9_OneCyclePerTurn ==
    mode = "multi"
        => /\ run_fetches <= 1 /\ run_commits <= 1
           /\ (dpc = "cycle" /\ turns > 0) => (run_fetches = 1 /\ run_commits = 1)

\* C10: with one pending message in each of the two topics, both messages
\* are committed once two turns have passed, and the driver never waits on an
\* empty topic while the other topic's message is uncommitted.
BlockedOnFetch == dpc = "running" /\ pc = "next" /\ position[running] >= topic_len[running]
C10_BothWithinTwoTurns ==
    (mode = "multi" /\ \A c \in Consumers : topic_len[c] = 1)
        => /\ turns >= 2 => \A c \in Consumers : committed[c] = 1
           /\ BlockedOnFetch => \A c \in Consumers : committed[c] = 1

\* the handler methods Consumer.run can call
MethodCalls == Count("save") + Count("delete") + Count("receive")

\* C11: a delete message whose handler has no target to delete (lookup found
\* nothing, or the handler has no lookup) is a no-op success: unless the
\* handler's own delete raises, the message is committed, nothing is sent to
\* the error topic and the run does not raise.
C11_DeleteMissingTargetIsNoop ==
    (Done /\ serializer # Empty /\ serializer._action_type = "delete"
          /\ serializer.instance = None /\ (HandlerRaised => exc \notin HandlerErrors))
        => /\ committed[running] = message.offset + 1
           /\ sent = <<>>
           /\ dpc # "raised"

\* C12 as stated: an envelope whose type is ignored, registered or not,
\* reaches no handler and is committed.
C12_IgnoredType_AsStated ==
    (Done /\ EnvelopeValid(Body) /\ Body.type \in ignored_message_types[running])
        => /\ serializer = Empty /\ MethodCalls = 0
           /\ committed[running] = message.offset + 1

\* C12 amended: an envelope whose type is ignored, registered or not, reaches
\* no handler; a Consumer constructed with throw_errors=False commits it.
C12_IgnoredType ==
    (Done /\ EnvelopeValid(Body) /\ Body.type \in ignored_message_types[running])
        => /\ serializer = Empty /\ MethodCalls = 0
           /\ exc.kind = "IgnoredMessageTypeError"
           /\ ~throw_errors[running] =>
                (calls = <<"fetch", "raise", "commit">>
                 /\ committed[running] = message.offset + 1)

C12_Witness ==
    /\ Done /\ EnvelopeValid(Body) /\ Body.type \in ignored_message_types[running]
    /\ Registered(running, Body) /\ ~throw_errors[running]
    /\ committed[running] = message.offset + 1

\* an action_type outside save / delete / class
BadAction(b) == ActionOf(b) \notin {"save", "delete", "class"}

\* C13 as stated: a registered (type, version) with an action_type outside
\* save / delete / class makes the run raise: no commit, no dead-letter send,
\* no skip-and-continue.
C13_BadActionIsFatal_AsStated ==
    (Done /\ EnvelopeValid(Body) /\ Registered(running, Body) /\ BadAction(Body))
        => /\ dpc = "raised"
           /\ committed[running] <= message.offset /\ Count("commit") = 0
           /\ sent = <<>>

\* C13 amended: the same for a type that is not in the ignored set; the error
\* is a NotImplementedError, not a ValidationError.
C13_BadActionIsFatal ==
    (Done /\ EnvelopeValid(Body) /\ Registered(running, Body) /\ BadAction(Body)
          /\ Body.type \notin ignored_message_types[running])
        => /\ dpc = "raised"
           /\ exc.kind = "NotImplementedError"
           /\ calls = <<"fetch", "raise">>
           /\ committed[running] <= message.offset
           /\ sent = <<>>

C13_Witness ==
    /\ Done /\ EnvelopeValid(Body) /\ Registered(running, Body) /\ BadAction(Body)
    /\ Body.type \notin ignored_message_types[running]
    /\ error_topic # None /\ ~throw_errors[running] /\ dpc = "raised"

\* the register calls made on consumer c for the pair (t, v), and the class
\* the last of them passed
RegCalls(c, t, v) ==
    {k \in DOMAIN reg_log[c] : Class(reg_log[c][k]).MESSAGE_TYPE = t
                               /\ Class(reg_log[c][k]).VERSION = v}
LastRegistered(c, t, v) ==
    IF RegCalls(c, t, v) = {} THEN None
    ELSE reg_log[c][CHOOSE k \in RegCalls(c, t, v) : \A j \in RegCalls(c, t, v) : j <= k]
TypeRegistered(c, t) == \E k \in DOMAIN reg_log[c] : Class(reg_log[c][k]).MESSAGE_TYPE = t
Dispatchable(b) == ~BadAction(b) /\ (ActionOf(b) = "save" => is_valid(b.message))
ResolvesExactly(b) ==
    LET h == LastRegistered(running, b.type, b.version) IN
    /\ (h # None /\ Dispatchable(b)) => serializer # Empty
    /\ serializer # Empty => serializer.cls = h
    /\ (TypeRegistered(running, b.type) /\ h = None)
         => /\ serializer = Empty /\ MethodCalls = 0
            /\ exc.kind = "UnknownMessageVersionError"

\* C15 as stated: after any sequence of register calls, a well-formed message
\* is dispatched to the class the last register call for exactly its (type,
\* version) passed; when its type is registered and its version is not, it is
\* classified UnknownVersion and reaches no handler.
C15_ExactResolution_AsStated ==
    (calls # <<>> /\ EnvelopeValid(Body)) => ResolvesExactly(Body)

\* C15 amended: the same for a message whose type is not in the ignored set.
C15_ExactResolution ==
    (calls # <<>> /\ EnvelopeValid(Body) /\ Body.type \notin ignored_message_types[running])
        => ResolvesExactly(Body)

C15_Witness ==
    /\ Done /\ reg_log[running] = <<"HA", "HB">> /\ EnvelopeValid(Body)
    /\ Body.type \notin ignored_message_types[running]
    /\ serializer # Empty /\ serializer.cls = "HB" /\ HandlerReturned

\* C18: on the dead-letter path the send to the error topic comes before the
\* commit of the original message; when that send raises, the message is not
\* committed, Consumer.run raises and the run fetches no further message.
C18_SendBeforeCommit ==
    (error_topic # None /\ HandlerRaised /\ pc # "except")
        => /\ Count("send") = 1 /\ Precedes("send", "commit")
           /\ IF SendRaised
              THEN /\ dpc = "raised"
                   /\ calls[Len(calls)] = "raise" /\ Count("commit") = 0
                   /\ committed[running] <= message.offset
                   /\ position[running] = message.offset + 1
              ELSE /\ calls[Len(calls)] \in {"commit", "end"}
                   /\ committed[running] = message.offset + 1

C18_Witness ==
    /\ error_topic # None /\ SendRaised /\ dpc = "raised" /\ Len(sent) = 1
    /\ committed[running] = message.offset /\ position[running] < topic_len[running]

\* C19: one message in flight per pipeline.  A message is fetched only when
\* every message fetched before it is committed, and a commit advances the
\* stored offset by one, to the message fetched last: offsets are committed
\* in fetch order and never past an uncommitted message.
C19_OneInFlight ==
    [][\A c \in Consumers :
          /\ position'[c] > position[c]
               => (committed[c] = position[c] /\ position'[c] = position[c] + 1)
          /\ committed'[c] # committed[c]
               => (committed'[c] = committed[c] + 1 /\ committed'[c] = position'[c]
                   /\ position'[c] = message'.offset + 1)]_vars

C19_Witness ==
    /\ Done /\ kills = 0 /\ committed[running] = 2 /\ position[running] = 2
    /\ message.offset = 1 /\ Count("commit") = 1

\* a ValidationError raised while the handler is constructed and validated in
\* _unserialize, and one raised by the handler's save / delete / receive
DecodeValidationError ==
    calls # <<>> /\ exc # Empty /\ exc.kind = "ValidationError" /\ ~HandlerRaised
ApplyValidationError ==
    HandlerRaised /\ exc.kind = "ValidationError" /\ pc # "except"
SkippedAndCommitted ==
    /\ calls = <<"fetch", "raise", "commit">>
    /\ committed[running] = message.offset + 1
    /\ dpc = "running" /\ pc = "next"
HandledAsApplicationError ==
    /\ Count("commit") = 1 => Precedes("send", "commit")
    /\ IF error_topic # None
       THEN /\ Len(sent) = 1 /\ sent[1].topic = error_topic
            /\ sent[1].value.body.error = exc.str
            /\ ~SendRaised => committed[running] = message.offset + 1
       ELSE /\ sent = <<>> /\ dpc = "raised"
            /\ Count("commit") = 0 /\ committed[running] <= message.offset

\* C20 as stated: a ValidationError raised during decoding is skip-and-commit;
\* one raised by the handler's method inside Consumer.run is never skipped: it
\* is dead-lettered when ERROR_TOPIC is set, else fatal and uncommitted.
C20_ValidationByPhase_AsStated ==
    /\ DecodeValidationError => SkippedAndCommitted
    /\ ApplyValidationError => HandledAsApplicationError

\* C20 amended: the decode-time ValidationError is skip-and-commit for a
\* Consumer constructed with throw_errors=False, and leaves Consumer.run with
\* the message uncommitted for one constructed with throw_errors=True; the
\* handler-time one is as stated.
C20_ValidationByPhase ==
    /\ DecodeValidationError
         => IF throw_errors[running]
            THEN /\ calls = <<"fetch", "raise">> /\ dpc = "raised"
                 /\ committed[running] <= message.offset /\ sent = <<>>
            ELSE SkippedAndCommitted
    /\ ApplyValidationError => HandledAsApplicationError

C20_Witness ==
    /\ ApplyValidationError /\ ~throw_errors[running] /\ error_topic = None
    /\ ActionOf(Body) = "save" /\ is_valid(Body.message)
    /\ dpc = "raised" /\ committed[running] = message.offset

\* C14: Producer.send with delete or class on a class without key field, or
\* with an action_type outside save / delete / class, raises, and the records
\* handed to the transport are those handed before the call.
C14_RaisesBeforeSend ==
    (p_call # Empty
       /\ \/ p_call.action_type \notin {"save", "delete", "class"}
          \/ /\ p_call.action_type \in {"delete", "class"}
             /\ Class(producer.serializer_class).KEY_FIELD = None)
        => /\ p_call.exc = IF p_call.action_type \in {"delete", "class"}
                           THEN "KeyError" ELSE "NotImplementedError"
           /\ Len(p_sent) = p_call.sent_before

C14_Witness ==
    /\ p_call # Empty /\ p_call.action_type = "delete" /\ p_call.exc = "KeyError"
    /\ Class(producer.serializer_class).KEY_FIELD = None
    /\ p_call.sent_before = 1 /\ Len(p_sent) = 1

\* the consumer decoded the type, version, message and action_type the
\* producer put in, and handed them to the producer's class with that action
SameTuple ==
    LET put == p_log[decoded.index]
        cls == Class(producer.serializer_class)
    IN
    /\ decoded.data = put.body
    /\ DOMAIN decoded.data = {"type", "version", "message", "action_type"}
    /\ decoded.data.type = cls.MESSAGE_TYPE /\ decoded.data.version = cls.VERSION
    /\ decoded.data.message = IF put.action_type = "save" THEN Data(put.instance)
                              ELSE put.instance
    /\ decoded.data.action_type = put.action_type
DispatchedAsSent ==
    LET put == p_log[decoded.index] IN
    /\ decoded.ok
    /\ decoded.serializer.cls = producer.serializer_class
    /\ decoded.serializer._action_type = put.action_type
    /\ decoded.method = Method(put.action_type) /\ decoded.method # "nothing"
    /\ put.action_type \in {"save", "class"} => decoded.serializer.data = decoded.data.message

Lag == IF Has(t_message, "timestamp") THEN fetched_at - t_message.timestamp ELSE 0
Block == IF min_lag - Lag > 0 THEN min_lag - Lag ELSE 0

\* C17: for every fetched message the pipeline blocks for max(0,
\* MIN_MESSAGE_LAG_MS - lag), with lag = now - timestamp, and 0 when the
\* message has no timestamp: the sleep ends that long after the fetch, there
\* is no sleep when lag is at least MIN_MESSAGE_LAG_MS, and _unserialize is
\* not called before the sleep ends.
C17_BlocksForLagDeficit ==
    (mode = "throttle" /\ t_pc \in {"sleep", "decode"})
        => /\ wake = fetched_at + Block
           /\ Lag >= min_lag => t_pc = "decode"
           /\ t_pc = "decode" => now >= wake
====
